---- MODULE Spec2Model ----
(***************************************************************************)
(* Model of the image batch tool (src/index.js): the partitioning of       *)
(* (file, scale) pairs into worker groups, the worker threads, the parent   *)
(* side promise plumbing of processImage, the shared globalProgress         *)
(* counter and main's multi-config orchestration.                           *)
(*                                                                         *)
(* Node's scheduling is modelled as it is: the main thread runs one macro   *)
(* task (an event handler) at a time and drains the microtask queue         *)
(* (promise continuations) before it takes the next event; worker threads   *)
(* run in parallel with the main thread and with each other.                *)
(***************************************************************************)
EXTENDS Integers, Sequences, FiniteSets, TLC

VARIABLES
    configs,            \* loadConfig(): the job configurations of the run
    mainPc,             \* position of main(): start, starting, awaiting, done, exited
    globalProgress,     \* { total, processed } (index.js:560)
    configFilesCounts,  \* per config: { fileCount, files } (index.js:529)
    jobState,           \* per config: position of its async function
    poolPromise,        \* per config: Promise.all(workerPromises) (index.js:481)
    workers,            \* per config: the workers processImage spawned
    dirs,               \* the directories that exist under the output roots
    part                \* inputs and results of the pure functions under test

vars == <<configs, mainPc, globalProgress, configFilesCounts, jobState,
          poolPromise, workers, dirs, part>>

runVars == <<configs, mainPc, globalProgress, configFilesCounts, jobState,
             poolPromise, workers, dirs>>

----------------------------------------------------------------------------
(* Bounds *)

MaxFiles == 3          \* longest file list given to the partitioner
MaxThreads == 3        \* largest threadsPerScale given to the partitioner
NumJobs == 2           \* configurations in one run
MaxUnits == 2          \* (file, scale) units of one run
RunMaxFiles == 2       \* files in the input directory of a run's config
RunMaxScales == 2      \* scales of a run's config
RunMaxThreads == 2     \* threadsPerScale of a run's config
MaxDim == 6            \* largest width or height given to calculateCropArea

----------------------------------------------------------------------------
(* Files, paths and small helpers *)

\* A source path inputDir/name.ext, kept as its parts.
Names == {"a", "b"}
ImageExts == {".jpg", ".png"}
Exts == ImageExts \cup {".txt"}
Paths == [name : Names, ext : Exts]
ImagePaths == [name : Names, ext : ImageExts]

Scales == {1, 2}

\* config.supportedFormats (defaultConfig, index.js:42), restricted to Exts
supportedFormats == ImageExts

\* config.maxWorkers of defaultConfig (index.js:41)
maxWorkers == 4

Min(a, b) == IF a < b THEN a ELSE b
Max(a, b) == IF a > b THEN a ELSE b

\* Ceil with a fault: rounds down
CeilRoundsDown(a, b) == a \div b

\* Math.ceil(a / b) for a >= 0, b >= 1
Ceil(a, b) == (a + b - 1) \div b

RECURSIVE SumSeq(_)
SumSeq(s) == IF s = <<>> THEN 0 ELSE Head(s) + SumSeq(Tail(s))

\* sequences without repetition over S, of length at most n
DistinctSeqs(S, n) ==
    UNION { { s \in [1..k -> S] : \A i, j \in 1..k : i # j => s[i] # s[j] }
            : k \in 0..n }

\* path.parse(inputPath).name: the file name without its last extension
ParsedName(inputPath) == inputPath.name

\* path.join(path.join(outputDir, `x${scale}`), `${fileName}.webp`)
OutputPath(outputDir, scale, inputPath) ==
    <<outputDir, "x", scale, ParsedName(inputPath), ".webp">>

----------------------------------------------------------------------------
(* Output directories (index.js:66-71, 367-371) *)

\* path.join(outputDir, `x${scale}`)
ScaleDir(outputDir, scale) == <<outputDir, "x", scale>>

\* the directory a directory lies in; <<>> is the working directory
Parent(dirPath) == IF Len(dirPath) = 3 THEN <<dirPath[1]>> ELSE <<>>

\* fs.mkdirSync(dirPath, { recursive }): with recursive the missing parents
\* are made and an existing directory is no error; without it an existing
\* directory (EEXIST) and a missing parent (ENOENT) throw
mkdirSync(fsDirs, dirPath, recursive) ==
    IF recursive
    THEN [dirs |-> fsDirs \cup {dirPath} \cup ({Parent(dirPath)} \ {<<>>}),
          threw |-> FALSE]
    ELSE IF dirPath \in fsDirs
            \/ (Parent(dirPath) # <<>> /\ Parent(dirPath) \notin fsDirs)
    THEN [dirs |-> fsDirs, threw |-> TRUE]
    ELSE [dirs |-> fsDirs \cup {dirPath}, threw |-> FALSE]

\* ensureDir with a fault: no existsSync test and a plain mkdirSync
ensureDirPlainMkdir(fsDirs, dirPath) == mkdirSync(fsDirs, dirPath, FALSE)

\* ensureDir (index.js:66-71)
ensureDir(fsDirs, dirPath) ==
    IF dirPath \in fsDirs
    THEN [dirs |-> fsDirs, threw |-> FALSE]
    ELSE mkdirSync(fsDirs, dirPath, TRUE)

\* the loop at index.js:368-371 from the k-th scale on; a throw ends it
RECURSIVE EnsureScaleDirs(_, _, _, _)
EnsureScaleDirs(fsDirs, outputDir, scales, k) ==
    IF k > Len(scales) THEN [dirs |-> fsDirs, threw |-> FALSE]
    ELSE LET made == ensureDir(fsDirs, ScaleDir(outputDir, scales[k]))
         IN  IF made.threw THEN made
             ELSE EnsureScaleDirs(made.dirs, outputDir, scales, k + 1)

----------------------------------------------------------------------------
(* getImageFiles (index.js:74-84) *)

\* the listing filtered by extension, in readdir order; "throws" when the
\* directory does not exist
getImageFiles(config) ==
    IF ~config.dirExists
    THEN [threw |-> TRUE, files |-> <<>>]
    ELSE [threw |-> FALSE,
          files |-> SelectSeq(config.listing,
                              LAMBDA f : f.ext \in supportedFormats)]

----------------------------------------------------------------------------
(* The partitioner inside processImage (index.js:380-412) *)

\* FileGroup with a fault: the file at index i goes to group (i + 1) % t
RECURSIVE FileGroupShifted(_, _, _, _)
FileGroupShifted(imageFiles, threadsPerScale, groupIndex, n) ==
    IF n = 0 THEN <<>>
    ELSE LET prev == FileGroupShifted(imageFiles, threadsPerScale, groupIndex, n - 1)
         IN  IF n % threadsPerScale = groupIndex
             THEN Append(prev, imageFiles[n])
             ELSE prev

\* FileGroup with a fault: the file at index i goes to group i \div t
RECURSIVE FileGroupBlocks(_, _, _, _)
FileGroupBlocks(imageFiles, threadsPerScale, groupIndex, n) ==
    IF n = 0 THEN <<>>
    ELSE LET prev == FileGroupBlocks(imageFiles, threadsPerScale, groupIndex, n - 1)
         IN  IF (n - 1) \div threadsPerScale = groupIndex
             THEN Append(prev, imageFiles[n])
             ELSE prev

\* fileGroups[groupIndex] after the round-robin loop over the first n files
RECURSIVE FileGroup(_, _, _, _)
FileGroup(imageFiles, threadsPerScale, groupIndex, n) ==
    IF n = 0 THEN <<>>
    ELSE LET prev == FileGroup(imageFiles, threadsPerScale, groupIndex, n - 1)
         IN  IF (n - 1) % threadsPerScale = groupIndex
             THEN Append(prev, imageFiles[n])
             ELSE prev

\* ScaleGroups with a fault: skips the groups with a single file as well
RECURSIVE ScaleGroupsSkipsSingle(_, _, _, _)
ScaleGroupsSkipsSingle(imageFiles, scale, threadsPerScale, g) ==
    IF g >= threadsPerScale THEN <<>>
    ELSE LET files == FileGroup(imageFiles, threadsPerScale, g, Len(imageFiles))
             rest  == ScaleGroupsSkipsSingle(imageFiles, scale, threadsPerScale, g + 1)
         IN  IF Len(files) > 1
             THEN <<[scale |-> scale, groupIndex |-> g + 1, files |-> files,
                     expectedOutputs |-> Len(files)]>> \o rest
             ELSE rest

\* ScaleGroups with a fault: the empty groups are pushed as well
RECURSIVE ScaleGroupsKeepsEmpty(_, _, _, _)
ScaleGroupsKeepsEmpty(imageFiles, scale, threadsPerScale, g) ==
    IF g >= threadsPerScale THEN <<>>
    ELSE LET files == FileGroup(imageFiles, threadsPerScale, g, Len(imageFiles))
             rest  == ScaleGroupsKeepsEmpty(imageFiles, scale, threadsPerScale, g + 1)
         IN  <<[scale |-> scale, groupIndex |-> g + 1, files |-> files,
                expectedOutputs |-> Len(files)]>> \o rest

\* the groups pushed for one scale, from groupIndex g up (empty ones skipped)
RECURSIVE ScaleGroups(_, _, _, _)
ScaleGroups(imageFiles, scale, threadsPerScale, g) ==
    IF g >= threadsPerScale THEN <<>>
    ELSE LET files == FileGroup(imageFiles, threadsPerScale, g, Len(imageFiles))
             rest  == ScaleGroups(imageFiles, scale, threadsPerScale, g + 1)
         IN  IF Len(files) > 0
             THEN <<[scale |-> scale, groupIndex |-> g + 1, files |-> files,
                     expectedOutputs |-> Len(files)]>> \o rest
             ELSE rest

RECURSIVE GroupsFrom(_, _, _, _)
GroupsFrom(imageFiles, scales, threadsPerScale, k) ==
    IF k > Len(scales) THEN <<>>
    ELSE ScaleGroups(imageFiles, scales[k], threadsPerScale, 0)
         \o GroupsFrom(imageFiles, scales, threadsPerScale, k + 1)

\* allWorkerGroups: workerId is globalWorkerId++, i.e. the position
AllWorkerGroups(imageFiles, scales, threadsPerScale) ==
    LET gs == GroupsFrom(imageFiles, scales, threadsPerScale, 1)
    IN  [i \in 1..Len(gs) |->
            [workerId |-> i, scale |-> gs[i].scale,
             groupIndex |-> gs[i].groupIndex, files |-> gs[i].files,
             expectedOutputs |-> gs[i].expectedOutputs]]

----------------------------------------------------------------------------
(* main's precomputed total (index.js:541-550) *)

\* ActualFiles with a fault: the chunk of the next threadIndex
ActualFilesOffByOne(fileCount, threadsPerScale, threadIndex) ==
    LET filesForThisThread == Ceil(fileCount, threadsPerScale)
    IN  Min(filesForThisThread,
            Max(0, fileCount - (threadIndex + 1) * filesForThisThread))

\* actualFiles for one threadIndex
ActualFiles(fileCount, threadsPerScale, threadIndex) ==
    LET filesForThisThread == Ceil(fileCount, threadsPerScale)
    IN  Min(filesForThisThread,
            Max(0, fileCount - threadIndex * filesForThisThread))

RECURSIVE ThreadUnits(_, _, _)
ThreadUnits(fileCount, threadsPerScale, threadIndex) ==
    IF threadIndex >= threadsPerScale THEN 0
    ELSE (IF ActualFiles(fileCount, threadsPerScale, threadIndex) > 0
          THEN ActualFiles(fileCount, threadsPerScale, threadIndex) ELSE 0)
         + ThreadUnits(fileCount, threadsPerScale, threadIndex + 1)

\* what one config adds to totalProcessingUnits
ProcessingUnits(fileCount, scales, threadsPerScale) ==
    SumSeq([k \in 1..Len(scales) |-> ThreadUnits(fileCount, threadsPerScale, 0)])

\* one iteration of main's counting loop (index.js:532-555)
EnumerateConfig(config) ==
    LET listed == getImageFiles(config)
        threadsPerScale == IF config.threadsPerScale = 0 THEN 1
                           ELSE config.threadsPerScale
    IN  IF listed.threw
        THEN [fileCount |-> 0, files |-> <<>>, units |-> 0]
        ELSE [fileCount |-> Len(listed.files), files |-> listed.files,
              units |-> ProcessingUnits(Len(listed.files), config.scales,
                                        threadsPerScale)]

----------------------------------------------------------------------------
(* calculateCropArea (index.js:184-224) *)

\* Math.round(a / b) for an integer a and b > 0: the nearest integer, a half
\* rounded up (the quotients met here are small enough for the doubles of
\* the code to round as the exact quotient does)
Round(a, b) == (2 * a + b) \div (2 * b)

\* cropPosition: "left" stands for any value that is no case of the switch
Anchors == {"top", "bottom", "center", "left"}

\* CropRaw with a fault: the wider source is cropped from its left edge
CropRawLeftAligned(originalWidth, originalHeight, targetWidth, targetHeight, cropPosition) ==
    IF originalWidth * targetHeight > targetWidth * originalHeight
    THEN [cropWidth |-> Round(originalHeight * targetWidth, targetHeight),
          cropHeight |-> originalHeight, left |-> 0, top |-> 0]
    ELSE LET cropHeight == Round(originalWidth * targetHeight, targetWidth)
         IN  [cropWidth |-> originalWidth, cropHeight |-> cropHeight, left |-> 0,
              top |-> IF cropPosition = "top" THEN 0
                      ELSE IF cropPosition = "bottom"
                      THEN originalHeight - cropHeight
                      ELSE Round(originalHeight - cropHeight, 2)]

\* CropRaw with a fault: the cases top and bottom are exchanged
CropRawSwapped(originalWidth, originalHeight, targetWidth, targetHeight, cropPosition) ==
    IF originalWidth * targetHeight > targetWidth * originalHeight
    THEN LET cropWidth == Round(originalHeight * targetWidth, targetHeight)
         IN  [cropWidth |-> cropWidth, cropHeight |-> originalHeight,
              left |-> Round(originalWidth - cropWidth, 2), top |-> 0]
    ELSE LET cropHeight == Round(originalWidth * targetHeight, targetWidth)
         IN  [cropWidth |-> originalWidth, cropHeight |-> cropHeight, left |-> 0,
              top |-> IF cropPosition = "bottom" THEN 0
                      ELSE IF cropPosition = "top"
                      THEN originalHeight - cropHeight
                      ELSE Round(originalHeight - cropHeight, 2)]

\* index.js:185-216: cropWidth, cropHeight, left and top before the clamps;
\* originalRatio > targetRatio is compared on the cross products
CropRaw(originalWidth, originalHeight, targetWidth, targetHeight, cropPosition) ==
    IF originalWidth * targetHeight > targetWidth * originalHeight
    THEN LET cropWidth == Round(originalHeight * targetWidth, targetHeight)
         IN  [cropWidth |-> cropWidth, cropHeight |-> originalHeight,
              left |-> Round(originalWidth - cropWidth, 2), top |-> 0]
    ELSE LET cropHeight == Round(originalWidth * targetHeight, targetWidth)
         IN  [cropWidth |-> originalWidth, cropHeight |-> cropHeight, left |-> 0,
              top |-> IF cropPosition = "top" THEN 0
                      ELSE IF cropPosition = "bottom"
                      THEN originalHeight - cropHeight
                      ELSE Round(originalHeight - cropHeight, 2)]

\* calculateCropArea with a fault: Math.max for the width
calculateCropAreaMaxWidth(originalWidth, originalHeight, targetWidth, targetHeight, cropPosition) ==
    LET raw == CropRaw(originalWidth, originalHeight, targetWidth,
                       targetHeight, cropPosition)
    IN  [left   |-> Max(0, raw.left),
         top    |-> Max(0, raw.top),
         width  |-> Max(raw.cropWidth, originalWidth),
         height |-> Min(raw.cropHeight, originalHeight)]

\* the returned rectangle (index.js:218-223)
calculateCropArea(originalWidth, originalHeight, targetWidth, targetHeight, cropPosition) ==
    LET raw == CropRaw(originalWidth, originalHeight, targetWidth,
                       targetHeight, cropPosition)
    IN  [left   |-> Max(0, raw.left),
         top    |-> Max(0, raw.top),
         width  |-> Min(raw.cropWidth, originalWidth),
         height |-> Min(raw.cropHeight, originalHeight)]

----------------------------------------------------------------------------
(* processImageSingleOptimized (index.js:286-357) *)

\* what the file system and sharp do to one unit
Outcomes == {"ok", "readError", "writeError"}
\* in a whole run the .png files are the ones sharp cannot write
RunOutcome(inputPath) == IF inputPath.ext = ".png" THEN "writeError" ELSE "ok"

\* processImageSingleOptimized with a fault: the outer catch reports success
processImageSingleOptimizedOuterCatchOk(inputPath, scales, outcome) ==
    IF Len(scales) = 0 \/ scales[1] = 0
    THEN [file |-> inputPath, success |-> FALSE, error |-> "noScale",
          generatedFiles |-> 0]
    ELSE IF outcome = "readError"
    THEN [file |-> inputPath, success |-> TRUE, error |-> "readError",
          generatedFiles |-> 0]
    ELSE IF outcome = "writeError"
    THEN [file |-> inputPath, success |-> FALSE, error |-> "writeError",
          generatedFiles |-> 0]
    ELSE [file |-> inputPath, success |-> TRUE, error |-> "none",
          generatedFiles |-> 1]

\* the result record of one unit; error is "none" where the code sets none
processImageSingleOptimized(inputPath, scales, outcome) ==
    IF Len(scales) = 0 \/ scales[1] = 0
    THEN [file |-> inputPath, success |-> FALSE, error |-> "noScale",
          generatedFiles |-> 0]
    ELSE IF outcome = "readError"
    THEN [file |-> inputPath, success |-> FALSE, error |-> "readError",
          generatedFiles |-> 0]
    ELSE IF outcome = "writeError"
    THEN [file |-> inputPath, success |-> FALSE, error |-> "writeError",
          generatedFiles |-> 0]
    ELSE [file |-> inputPath, success |-> TRUE, error |-> "none",
          generatedFiles |-> 1]

----------------------------------------------------------------------------
(* The run: state *)

Jobs == 1..Len(configs)

WorkerIds(j) == 1..Len(workers[j])

\* events a worker thread sends to its listeners in the main thread
MessageOk(results) ==
    [type |-> "message", success |-> TRUE, results |-> results, code |-> 0]
MessageFail ==
    [type |-> "message", success |-> FALSE, results |-> <<>>, code |-> 0]
ErrorEvent ==
    [type |-> "error", success |-> FALSE, results |-> <<>>, code |-> 0]
ExitEvent(code) ==
    [type |-> "exit", success |-> FALSE, results |-> <<>>, code |-> code]

\* the kind of an event: ok, fail, error, exit0 or exit1
Kind(e) ==
    IF e.type = "message" THEN (IF e.success THEN "ok" ELSE "fail")
    ELSE IF e.type = "error" THEN "error"
    ELSE IF e.code = 0 THEN "exit0" ELSE "exit1"

\* new Worker(__filename, { workerData }) and the promise awaiting it
\* (index.js:431-461)
NewWorker(group) ==
    [workerId   |-> group.workerId,
     scale      |-> group.scale,
     groupIndex |-> group.groupIndex,
     files      |-> group.files,
     scales     |-> <<group.scale>>,   \* workerData.config.scales
     thread     |-> "running",         \* running, posted, exited
     started    |-> 0,                 \* units the loop has started
     outcomes   |-> <<>>,              \* what happened to the units so far
     results    |-> <<>>,              \* the thread's results array (gone,
                                       \* like all its memory, when it ends)
     inbox      |-> <<>>,              \* events not yet handled by the parent
     seen       |-> {},                \* kinds of events the listeners handled
     promise    |-> "pending",         \* pending, resolved, rejected
     value      |-> <<>>,              \* the value the promise resolved with
     cont       |-> "awaiting",        \* the async (group) => ... function
     terminated |-> FALSE,             \* worker.terminate() was called
     crashed    |-> FALSE]             \* history: the thread failed as a whole

\* configurations of a run: the directory holds the first files of
\* a.jpg, a.png, b.jpg and the config asks for the first scales of 1, 2, 3
RunListing == <<[name |-> "a", ext |-> ".jpg"], [name |-> "a", ext |-> ".png"],
                [name |-> "b", ext |-> ".jpg"]>>
RunScales == <<1, 2, 3>>

RunConfigs ==
    { [dirExists |-> TRUE, listing |-> SubSeq(RunListing, 1, n),
       outputDir |-> "out", scales |-> SubSeq(RunScales, 1, k),
       threadsPerScale |-> t, maxWorkers |-> 1] :
          n \in 1..RunMaxFiles, k \in 1..RunMaxScales, t \in 1..RunMaxThreads }
    \cup { [dirExists |-> d, listing |-> <<>>, outputDir |-> "out",
            scales |-> <<1>>, threadsPerScale |-> 1, maxWorkers |-> 1] :
               d \in BOOLEAN }

\* the pure functions are not under test in a run
NoPart == [config |-> [dirExists |-> FALSE, listing |-> <<>>, outputDir |-> "out",
                       scales |-> <<>>, threadsPerScale |-> 1,
                       maxWorkers |-> maxWorkers],
           done |-> FALSE, files |-> <<>>, total |-> 0, groups |-> <<>>]

UnitsOf(config) == EnumerateConfig(config).fileCount * Len(config.scales)

\* the runs: at most MaxUnits units, the configs with more units first, at
\* most one config without files, and no threadsPerScale above the file count
\* (a run behaves the same with its configs in another order, and the
\* partitioner on its own covers every threadsPerScale); loadConfig returns
\* the empty list for a config.json of { "configs": [] } (index.js:54-55)
RunInputs ==
    { cs \in UNION { [1..n -> RunConfigs] : n \in 0..NumJobs } :
        /\ \A j \in 1..Len(cs) :
              cs[j].threadsPerScale <= Max(1, Len(cs[j].listing))
        /\ \A j \in 1..(Len(cs) - 1) : UnitsOf(cs[j]) >= UnitsOf(cs[j + 1])
        /\ \A j \in 1..(Len(cs) - 1) : UnitsOf(cs[j]) > 0
        /\ SumSeq([j \in 1..Len(cs) |-> UnitsOf(cs[j])]) <= MaxUnits }

RunInit ==
    /\ configs \in RunInputs
    /\ mainPc = "start"
    /\ globalProgress = [total |-> 0, processed |-> 0]
    /\ configFilesCounts = [j \in 1..Len(configs) |->
                               [fileCount |-> 0, files |-> <<>>]]
    /\ jobState = [j \in 1..Len(configs) |-> "PENDING"]
    /\ poolPromise = [j \in 1..Len(configs) |-> "none"]
    /\ workers = [j \in 1..Len(configs) |-> <<>>]
    /\ dirs = {}
    /\ part = NoPart

----------------------------------------------------------------------------
(* main, up to its await (index.js:504-596): synchronous code *)

\* MainEnumerate with a fault: the throw of getImageFiles is not caught in
\* the loop, so it reaches main's catch and process.exit(1)
MainEnumerateNoCatch ==
    /\ mainPc = "start"
    /\ IF \E j \in Jobs : getImageFiles(configs[j]).threw
       THEN /\ mainPc' = "exited"
            /\ UNCHANGED <<configFilesCounts, globalProgress, jobState>>
       ELSE /\ configFilesCounts' =
                  [j \in Jobs |-> [fileCount |-> EnumerateConfig(configs[j]).fileCount,
                                   files     |-> EnumerateConfig(configs[j]).files]]
            /\ globalProgress' =
                  [total     |-> SumSeq([j \in Jobs |-> EnumerateConfig(configs[j]).units]),
                   processed |-> 0]
            /\ jobState' = [j \in Jobs |-> "ENUMERATED"]
            /\ mainPc' = "starting"
    /\ UNCHANGED <<configs, poolPromise, workers, dirs, part>>

\* index.js:526-563: count the files of every config, create globalProgress
MainEnumerate ==
    /\ mainPc = "start"
    /\ configFilesCounts' =
          [j \in Jobs |-> [fileCount |-> EnumerateConfig(configs[j]).fileCount,
                           files     |-> EnumerateConfig(configs[j]).files]]
    /\ globalProgress' =
          [total     |-> SumSeq([j \in Jobs |-> EnumerateConfig(configs[j]).units]),
           processed |-> 0]
    /\ jobState' = [j \in Jobs |-> "ENUMERATED"]
    /\ mainPc' = "starting"
    /\ UNCHANGED <<configs, poolPromise, workers, dirs, part>>

\* path.resolve(config.outputDir): the path below the working directory
Resolve(outputDir) == <<"cwd", outputDir>>

\* index.js:513-524: the output directories main warns about, in the order
\* of the configs from the k-th on; outputDirs holds the resolved paths so far
RECURSIVE ConflictWarningsFrom(_, _, _)
ConflictWarningsFrom(cs, k, outputDirs) ==
    IF k > Len(cs) THEN <<>>
    ELSE (IF Resolve(cs[k].outputDir) \in outputDirs
          THEN <<cs[k].outputDir>> ELSE <<>>)
         \o ConflictWarningsFrom(cs, k + 1,
                                 outputDirs \cup {Resolve(cs[k].outputDir)})

ConflictWarnings(cs) ==
    IF Len(cs) > 1 THEN ConflictWarningsFrom(cs, 1, {}) ELSE <<>>

\* StartJob with a fault: a config whose output directory an earlier config
\* uses is not run
StartJobSkipsConflict(j) ==
    /\ mainPc = "starting"
    /\ jobState[j] = "ENUMERATED"
    /\ \A k \in Jobs : k < j => jobState[k] # "ENUMERATED"
    /\ LET cfc == configFilesCounts[j]
           threadsPerScale == configs[j].threadsPerScale
           groups == AllWorkerGroups(cfc.files, configs[j].scales, threadsPerScale)
           root == ensureDir(dirs, <<configs[j].outputDir>>)
           made == IF root.threw \/ cfc.fileCount = 0 THEN root
                   ELSE EnsureScaleDirs(root.dirs, configs[j].outputDir,
                                        configs[j].scales, 1)
           skipped == \E k \in Jobs :
                         k < j /\ Resolve(configs[k].outputDir)
                                     = Resolve(configs[j].outputDir)
       IN  /\ dirs' = made.dirs
           /\ IF made.threw
              THEN /\ jobState' = [jobState EXCEPT ![j] = "FAILED"]
                   /\ UNCHANGED <<workers, poolPromise>>
              ELSE IF cfc.fileCount = 0 \/ skipped
              THEN /\ jobState' = [jobState EXCEPT ![j] = "COMPLETED"]
                   /\ UNCHANGED <<workers, poolPromise>>
              ELSE /\ jobState' = [jobState EXCEPT ![j] = "EXECUTING"]
                   /\ workers' = [workers EXCEPT ![j] =
                                     [i \in 1..Len(groups) |-> NewWorker(groups[i])]]
                   /\ poolPromise' = [poolPromise EXCEPT ![j] = "pending"]
    /\ mainPc' = IF j = Len(configs) THEN "awaiting" ELSE "starting"
    /\ UNCHANGED <<configs, globalProgress, configFilesCounts, part>>

\* index.js:570-594 (or 599-611 for a single config) down to the first await:
\* ensureDir(config.outputDir); a config without files returns at once, any
\* other calls processImage, which makes the scale directories, builds the
\* groups and spawns every worker before it awaits (index.js:360-481); a
\* throw on the way rejects the config's promise
StartJob(j) ==
    /\ mainPc = "starting"
    /\ jobState[j] = "ENUMERATED"
    /\ \A k \in Jobs : k < j => jobState[k] # "ENUMERATED"
    /\ LET cfc == configFilesCounts[j]
           threadsPerScale == configs[j].threadsPerScale
           groups == AllWorkerGroups(cfc.files, configs[j].scales, threadsPerScale)
           root == ensureDir(dirs, <<configs[j].outputDir>>)
           made == IF root.threw \/ cfc.fileCount = 0 THEN root
                   ELSE EnsureScaleDirs(root.dirs, configs[j].outputDir,
                                        configs[j].scales, 1)
       IN  /\ dirs' = made.dirs
           /\ IF made.threw
              THEN /\ jobState' = [jobState EXCEPT ![j] = "FAILED"]
                   /\ UNCHANGED <<workers, poolPromise>>
              ELSE IF cfc.fileCount = 0
              THEN /\ jobState' = [jobState EXCEPT ![j] = "COMPLETED"]
                   /\ UNCHANGED <<workers, poolPromise>>
              ELSE /\ jobState' = [jobState EXCEPT ![j] = "EXECUTING"]
                   /\ workers' = [workers EXCEPT ![j] =
                                     [i \in 1..Len(groups) |-> NewWorker(groups[i])]]
                   /\ poolPromise' = [poolPromise EXCEPT ![j] = "pending"]
    /\ mainPc' = IF j = Len(configs) THEN "awaiting" ELSE "starting"
    /\ UNCHANGED <<configs, globalProgress, configFilesCounts, part>>

\* index.js:597-599 with no config at all: configs.length > 1 is false, so
\* main takes the single-config path, where configFilesCounts[0] is undefined
\* and destructuring it throws a TypeError; main's catch (index.js:623-626)
\* reports it and calls process.exit(1)
MainNoConfig ==
    /\ mainPc = "starting"
    /\ Len(configs) = 0
    /\ mainPc' = "exited"
    /\ UNCHANGED <<configs, globalProgress, configFilesCounts, jobState,
                   poolPromise, workers, dirs, part>>

----------------------------------------------------------------------------
(* The worker thread (index.js:105-181) *)

ThreadRuns(j, i) ==
    /\ mainPc # "exited"
    /\ workers[j][i].thread = "running"

\* WorkerBegin with a fault: the call is not awaited, the loop goes on
WorkerBeginNoAwait(j, i) ==
    /\ ThreadRuns(j, i)
    /\ workers[j][i].started < Len(workers[j][i].files)
    /\ workers' = [workers EXCEPT ![j][i].started = @ + 1]
    /\ UNCHANGED <<configs, mainPc, globalProgress, configFilesCounts,
                   jobState, poolPromise, dirs, part>>

\* index.js:126-130: the loop takes the next file and calls
\* processImageSingleOptimized; the await keeps the loop from going on
WorkerBegin(j, i) ==
    /\ ThreadRuns(j, i)
    /\ workers[j][i].started < Len(workers[j][i].files)
    /\ workers[j][i].started = Len(workers[j][i].results)
    /\ workers' = [workers EXCEPT ![j][i].started = @ + 1]
    /\ UNCHANGED <<configs, mainPc, globalProgress, configFilesCounts,
                   jobState, poolPromise, dirs, part>>

\* index.js:130-132: the awaited call returns, its result is pushed
WorkerFinish(j, i, outcome) ==
    /\ ThreadRuns(j, i)
    /\ Len(workers[j][i].results) < workers[j][i].started
    /\ LET w == workers[j][i]
           inputPath == w.files[Len(w.results) + 1]
           result == processImageSingleOptimized(inputPath, w.scales, outcome)
       IN  workers' = [workers EXCEPT
                          ![j][i].outcomes = Append(w.outcomes, outcome),
                          ![j][i].results = Append(w.results, result)]
    /\ UNCHANGED <<configs, mainPc, globalProgress, configFilesCounts,
                   jobState, poolPromise, dirs, part>>

\* one whole turn of the loop at index.js:126-148, as a single step
WorkerUnit(j, i, outcome) ==
    /\ ThreadRuns(j, i)
    /\ workers[j][i].started = Len(workers[j][i].results)
    /\ Len(workers[j][i].results) < Len(workers[j][i].files)
    /\ LET w == workers[j][i]
           inputPath == w.files[Len(w.results) + 1]
           result == processImageSingleOptimized(inputPath, w.scales, outcome)
       IN  workers' = [workers EXCEPT
                          ![j][i].started = w.started + 1,
                          ![j][i].outcomes = Append(w.outcomes, outcome),
                          ![j][i].results = Append(w.results, result)]
    /\ UNCHANGED <<configs, mainPc, globalProgress, configFilesCounts,
                   jobState, poolPromise, dirs, part>>

\* WorkerPost with a fault: a failed unit makes the worker report failure
WorkerPostFailsOnUnitError(j, i) ==
    /\ ThreadRuns(j, i)
    /\ Len(workers[j][i].results) = Len(workers[j][i].files)
    /\ workers' = [workers EXCEPT
                      ![j][i].thread = "posted",
                      ![j][i].inbox = Append(@,
                          IF \E p \in 1..Len(workers[j][i].results) :
                                ~workers[j][i].results[p].success
                          THEN MessageFail
                          ELSE MessageOk(workers[j][i].results))]
    /\ UNCHANGED <<configs, mainPc, globalProgress, configFilesCounts,
                   jobState, poolPromise, dirs, part>>

\* index.js:173: the loop is over, the results are posted
WorkerPost(j, i) ==
    /\ ThreadRuns(j, i)
    /\ Len(workers[j][i].results) = Len(workers[j][i].files)
    /\ workers' = [workers EXCEPT
                      ![j][i].thread = "posted",
                      ![j][i].inbox = Append(@, MessageOk(workers[j][i].results))]
    /\ UNCHANGED <<configs, mainPc, globalProgress, configFilesCounts,
                   jobState, poolPromise, dirs, part>>

\* index.js:174-179: something outside processImageSingleOptimized threw
WorkerCatch(j, i) ==
    /\ ThreadRuns(j, i)
    /\ workers' = [workers EXCEPT
                      ![j][i].thread = "posted",
                      ![j][i].started = 0,
                      ![j][i].outcomes = <<>>,
                      ![j][i].results = <<>>,
                      ![j][i].inbox = Append(@, MessageFail),
                      ![j][i].crashed = TRUE]
    /\ UNCHANGED <<configs, mainPc, globalProgress, configFilesCounts,
                   jobState, poolPromise, dirs, part>>

\* an uncaught exception in the thread: 'error', then 'exit' with code 1
WorkerUncaught(j, i) ==
    /\ ThreadRuns(j, i)
    /\ workers' = [workers EXCEPT
                      ![j][i].thread = "exited",
                      ![j][i].started = 0,
                      ![j][i].outcomes = <<>>,
                      ![j][i].results = <<>>,
                      ![j][i].inbox = @ \o <<ErrorEvent, ExitEvent(1)>>,
                      ![j][i].crashed = TRUE]
    /\ UNCHANGED <<configs, mainPc, globalProgress, configFilesCounts,
                   jobState, poolPromise, dirs, part>>

\* the thread dies without an 'error' event: 'exit' with a non-zero code
WorkerAbort(j, i) ==
    /\ ThreadRuns(j, i)
    /\ workers' = [workers EXCEPT
                      ![j][i].thread = "exited",
                      ![j][i].started = 0,
                      ![j][i].outcomes = <<>>,
                      ![j][i].results = <<>>,
                      ![j][i].inbox = Append(@, ExitEvent(1)),
                      ![j][i].crashed = TRUE]
    /\ UNCHANGED <<configs, mainPc, globalProgress, configFilesCounts,
                   jobState, poolPromise, dirs, part>>

\* the thread has nothing left to do after its postMessage: 'exit', code 0
WorkerExit(j, i) ==
    /\ mainPc # "exited"
    /\ workers[j][i].thread = "posted"
    /\ workers' = [workers EXCEPT
                      ![j][i].thread = "exited",
                      ![j][i].started = 0,
                      ![j][i].outcomes = <<>>,
                      ![j][i].results = <<>>,
                      ![j][i].inbox = Append(@, ExitEvent(0))]
    /\ UNCHANGED <<configs, mainPc, globalProgress, configFilesCounts,
                   jobState, poolPromise, dirs, part>>

----------------------------------------------------------------------------
(* The main thread after main's await: promise continuations (microtasks)  *)
(* and event handlers (macrotasks)                                          *)

EventLoopRuns == mainPc \in {"awaiting", "done"}

\* the async (group) => ... function can resume after its await (index.js:446)
GroupContinueEnabled(j, i) ==
    /\ EventLoopRuns
    /\ workers[j][i].promise # "pending"
    /\ workers[j][i].cont = "awaiting"

\* PoolSettleEnabled with a fault: the pool settles with its first group,
\* like Promise.race
PoolSettleEnabledRace(j) ==
    /\ EventLoopRuns
    /\ poolPromise[j] = "pending"
    /\ \E i \in WorkerIds(j) : workers[j][i].cont # "awaiting"

\* Promise.all(workerPromises) can settle (index.js:481)
PoolSettleEnabled(j) ==
    /\ EventLoopRuns
    /\ poolPromise[j] = "pending"
    /\ \/ \E i \in WorkerIds(j) : workers[j][i].cont = "rejected"
       \/ \A i \in WorkerIds(j) : workers[j][i].cont = "fulfilled"

\* JobContinueEnabled with a fault: processImage does not await the pool
JobContinueEnabledNoAwait(j) ==
    /\ EventLoopRuns
    /\ jobState[j] = "EXECUTING"

\* processImage can resume after its await
JobContinueEnabled(j) ==
    /\ EventLoopRuns
    /\ jobState[j] = "EXECUTING"
    /\ poolPromise[j] \in {"resolved", "rejected"}

\* main can resume after its await (index.js:596 or 608)
MainSettleEnabled ==
    /\ mainPc = "awaiting"
    /\ \/ \E j \in Jobs : jobState[j] = "FAILED"
       \/ \A j \in Jobs : jobState[j] = "COMPLETED"

MicrotaskPending ==
    \/ \E j \in Jobs : \E i \in WorkerIds(j) : GroupContinueEnabled(j, i)
    \/ \E j \in Jobs : PoolSettleEnabled(j) \/ JobContinueEnabled(j)
    \/ MainSettleEnabled

\* OnEvent with a fault: a listener settles the promise again, the last
\* event wins
OnEventLastWins(j, i) ==
    /\ EventLoopRuns
    /\ ~MicrotaskPending
    /\ workers[j][i].inbox # <<>>
    /\ LET w == workers[j][i]
           e == Head(w.inbox)
           resolves == e.type = "message" /\ e.success
           rejects == \/ e.type = "message" /\ ~e.success
                      \/ e.type = "error"
                      \/ e.type = "exit" /\ e.code # 0
       IN  workers' = [workers EXCEPT
                          ![j][i].inbox = Tail(w.inbox),
                          ![j][i].seen = w.seen \cup {Kind(e)},
                          ![j][i].promise =
                              IF resolves THEN "resolved"
                              ELSE IF rejects THEN "rejected"
                              ELSE w.promise,
                          ![j][i].value =
                              IF resolves THEN e.results ELSE w.value]
    /\ UNCHANGED <<configs, mainPc, globalProgress, configFilesCounts,
                   jobState, poolPromise, dirs, part>>

\* the three listeners of index.js:447-460, run for the oldest event of a
\* worker; resolve and reject do nothing on a settled promise
OnEvent(j, i) ==
    /\ EventLoopRuns
    /\ ~MicrotaskPending
    /\ workers[j][i].inbox # <<>>
    /\ LET w == workers[j][i]
           e == Head(w.inbox)
           settles == w.promise = "pending"
           resolves == e.type = "message" /\ e.success
           rejects == \/ e.type = "message" /\ ~e.success
                      \/ e.type = "error"
                      \/ e.type = "exit" /\ e.code # 0
       IN  workers' = [workers EXCEPT
                          ![j][i].inbox = Tail(w.inbox),
                          ![j][i].seen = w.seen \cup {Kind(e)},
                          ![j][i].promise =
                              IF settles /\ resolves THEN "resolved"
                              ELSE IF settles /\ rejects THEN "rejected"
                              ELSE w.promise,
                          ![j][i].value =
                              IF settles /\ resolves THEN e.results ELSE w.value]
    /\ UNCHANGED <<configs, mainPc, globalProgress, configFilesCounts,
                   jobState, poolPromise, dirs, part>>

\* worker.terminate(): stops the thread; a thread that was still alive
\* emits 'exit' with code 1
Terminate(w) ==
    IF w.thread = "exited"
    THEN [w EXCEPT !.terminated = TRUE]
    ELSE [w EXCEPT !.terminated = TRUE, !.thread = "exited",
                   !.started = 0, !.outcomes = <<>>, !.results = <<>>,
                   !.inbox = Append(w.inbox, ExitEvent(1))]

\* GroupContinue with a fault: a rejected group is counted as well
GroupContinueCountsRejected(j, i) ==
    /\ GroupContinueEnabled(j, i)
    /\ LET w == workers[j][i]
       IN  /\ globalProgress' =
                 [globalProgress EXCEPT !.processed = @ + Len(w.files)]
           /\ workers' = [workers EXCEPT ![j][i] =
                 [Terminate(w) EXCEPT !.cont =
                     IF w.promise = "resolved" THEN "fulfilled" ELSE "rejected"]]
    /\ UNCHANGED <<configs, mainPc, configFilesCounts, jobState, poolPromise,
                   dirs, part>>

\* GroupContinue with a fault: terminate() after the update, not in a finally
GroupContinueNoFinally(j, i) ==
    /\ GroupContinueEnabled(j, i)
    /\ LET w == workers[j][i]
       IN  IF w.promise = "resolved"
           THEN /\ globalProgress' =
                      [globalProgress EXCEPT !.processed = @ + Len(w.files)]
                /\ workers' = [workers EXCEPT ![j][i] =
                                  [Terminate(w) EXCEPT !.cont = "fulfilled"]]
           ELSE /\ workers' = [workers EXCEPT ![j][i].cont = "rejected"]
                /\ UNCHANGED globalProgress
    /\ UNCHANGED <<configs, mainPc, configFilesCounts, jobState, poolPromise,
                   dirs, part>>

\* GroupContinue with a fault: only the successful units are counted
GroupContinueCountsSuccessful(j, i) ==
    /\ GroupContinueEnabled(j, i)
    /\ LET w == workers[j][i]
           succeeded == SelectSeq(w.value, LAMBDA r : r.success)
       IN  IF w.promise = "resolved"
           THEN /\ globalProgress' =
                      [globalProgress EXCEPT !.processed = @ + Len(succeeded)]
                /\ workers' = [workers EXCEPT ![j][i] =
                                  [Terminate(w) EXCEPT !.cont = "fulfilled"]]
           ELSE /\ workers' = [workers EXCEPT ![j][i] =
                                  [Terminate(w) EXCEPT !.cont = "rejected"]]
                /\ UNCHANGED globalProgress
    /\ UNCHANGED <<configs, mainPc, configFilesCounts, jobState, poolPromise,
                   dirs, part>>

\* GroupContinue with a fault: processed is read before the await, when it
\* is still 0, and the sum is written back after it
GroupContinueStaleRead(j, i) ==
    /\ GroupContinueEnabled(j, i)
    /\ LET w == workers[j][i]
       IN  IF w.promise = "resolved"
           THEN /\ globalProgress' =
                      [globalProgress EXCEPT !.processed = 0 + Len(w.files)]
                /\ workers' = [workers EXCEPT ![j][i] =
                                  [Terminate(w) EXCEPT !.cont = "fulfilled"]]
           ELSE /\ workers' = [workers EXCEPT ![j][i] =
                                  [Terminate(w) EXCEPT !.cont = "rejected"]]
                /\ UNCHANGED globalProgress
    /\ UNCHANGED <<configs, mainPc, configFilesCounts, jobState, poolPromise,
                   dirs, part>>

\* index.js:463-477: after the await, the progress update, then finally
GroupContinue(j, i) ==
    /\ GroupContinueEnabled(j, i)
    /\ LET w == workers[j][i]
       IN  IF w.promise = "resolved"
           THEN /\ globalProgress' =
                      [globalProgress EXCEPT !.processed = @ + Len(w.files)]
                /\ workers' = [workers EXCEPT ![j][i] =
                                  [Terminate(w) EXCEPT !.cont = "fulfilled"]]
           ELSE /\ workers' = [workers EXCEPT ![j][i] =
                                  [Terminate(w) EXCEPT !.cont = "rejected"]]
                /\ UNCHANGED globalProgress
    /\ UNCHANGED <<configs, mainPc, configFilesCounts, jobState, poolPromise,
                   dirs, part>>

\* PoolSettle with a fault: settles like Promise.allSettled and resolves
PoolSettleAllSettled(j) ==
    /\ PoolSettleEnabled(j)
    /\ poolPromise' = [poolPromise EXCEPT ![j] = "resolved"]
    /\ UNCHANGED <<configs, mainPc, globalProgress, configFilesCounts,
                   jobState, workers, dirs, part>>

\* Promise.all(workerPromises): rejected by the first rejected group,
\* resolved when every group is fulfilled
PoolSettle(j) ==
    /\ PoolSettleEnabled(j)
    /\ poolPromise' = [poolPromise EXCEPT ![j] =
          IF \E i \in WorkerIds(j) : workers[j][i].cont = "rejected"
          THEN "rejected" ELSE "resolved"]
    /\ UNCHANGED <<configs, mainPc, globalProgress, configFilesCounts,
                   jobState, workers, dirs, part>>

\* JobContinue with a fault: the job's catch does not rethrow
JobContinueSwallows(j) ==
    /\ JobContinueEnabled(j)
    /\ jobState' = [jobState EXCEPT ![j] = "COMPLETED"]
    /\ UNCHANGED <<configs, mainPc, globalProgress, configFilesCounts,
                   poolPromise, workers, dirs, part>>

\* index.js:483-500 and 588 when the pool resolved; the throw out of
\* processImage and the catch at index.js:590-592 when it rejected
JobContinue(j) ==
    /\ JobContinueEnabled(j)
    /\ jobState' = [jobState EXCEPT ![j] =
          IF poolPromise[j] = "resolved" THEN "COMPLETED" ELSE "FAILED"]
    /\ UNCHANGED <<configs, mainPc, globalProgress, configFilesCounts,
                   poolPromise, workers, dirs, part>>

\* MainSettle with a fault: the failure only sets the exit status, the
\* threads are left alone
MainSettleLeavesThreads ==
    /\ MainSettleEnabled
    /\ mainPc' = IF \E j \in Jobs : jobState[j] = "FAILED" THEN "exited" ELSE "done"
    /\ UNCHANGED <<configs, globalProgress, configFilesCounts, jobState,
                   poolPromise, workers, dirs, part>>

\* index.js:614-621 when every config's promise is fulfilled; the catch at
\* index.js:623-626 with process.exit(1), which ends every thread, as soon
\* as one is rejected
MainSettle ==
    /\ MainSettleEnabled
    /\ IF \E j \in Jobs : jobState[j] = "FAILED"
       THEN /\ mainPc' = "exited"
            /\ workers' = [j \in Jobs |-> [i \in WorkerIds(j) |->
                              [workers[j][i] EXCEPT !.thread = "exited",
                                  !.started = 0, !.outcomes = <<>>, !.results = <<>>]]]
       ELSE /\ mainPc' = "done"
            /\ UNCHANGED workers
    /\ UNCHANGED <<configs, globalProgress, configFilesCounts, jobState,
                   poolPromise, dirs, part>>

----------------------------------------------------------------------------
(* The run as a whole *)

RunNext ==
    \/ MainEnumerate
    \/ \E j \in Jobs : StartJob(j)
    \/ MainNoConfig
    \/ \E j \in Jobs : \E i \in WorkerIds(j) :
          \E outcome \in Outcomes :
              /\ Len(workers[j][i].results) < Len(workers[j][i].files)
              /\ outcome = RunOutcome(workers[j][i].files[Len(workers[j][i].results) + 1])
              /\ WorkerUnit(j, i, outcome)
    \/ \E j \in Jobs : \E i \in WorkerIds(j) : WorkerPost(j, i)
    \/ \E j \in Jobs : \E i \in WorkerIds(j) : WorkerCatch(j, i)
    \/ \E j \in Jobs : \E i \in WorkerIds(j) : WorkerUncaught(j, i)
    \/ \E j \in Jobs : \E i \in WorkerIds(j) : WorkerAbort(j, i)
    \/ \E j \in Jobs : \E i \in WorkerIds(j) : WorkerExit(j, i)
    \/ \E j \in Jobs : \E i \in WorkerIds(j) : OnEvent(j, i)
    \/ \E j \in Jobs : \E i \in WorkerIds(j) : GroupContinue(j, i)
    \/ \E j \in Jobs : PoolSettle(j)
    \/ \E j \in Jobs : JobContinue(j)
    \/ MainSettle

Spec == RunInit /\ [][RunNext]_vars

----------------------------------------------------------------------------
(* One worker thread on its own: the loop of index.js:109-180 over every   *)
(* group and every outcome of its units                                     *)

WorkerGroupInputs ==
    { [workerId |-> 1, scale |-> sc, groupIndex |-> 1, files |-> fs,
       expectedOutputs |-> Len(fs)] :
          sc \in Scales, fs \in DistinctSeqs(ImagePaths, MaxFiles) \ {<<>>} }

WorkerInit ==
    /\ configs = <<[dirExists |-> TRUE, listing |-> <<>>, outputDir |-> "out",
                    scales |-> <<1>>, threadsPerScale |-> 1,
                    maxWorkers |-> maxWorkers]>>
    /\ mainPc = "awaiting"
    /\ globalProgress = [total |-> 0, processed |-> 0]
    /\ configFilesCounts = <<[fileCount |-> 0, files |-> <<>>]>>
    /\ jobState = <<"EXECUTING">>
    /\ poolPromise = <<"pending">>
    /\ \E group \in WorkerGroupInputs : workers = <<<<NewWorker(group)>>>>
    /\ dirs = {<<"out">>} \cup { ScaleDir("out", sc) : sc \in Scales }
    /\ part = NoPart

\* here a turn of the loop is two steps, the call and its return
WorkerNext ==
    \/ WorkerBegin(1, 1)
    \/ \E outcome \in Outcomes : WorkerFinish(1, 1, outcome)
    \/ WorkerPost(1, 1)
    \/ WorkerCatch(1, 1)
    \/ WorkerExit(1, 1)

WorkerSpec == WorkerInit /\ [][WorkerNext]_vars

----------------------------------------------------------------------------
(* The pure functions on their own: main's unit count and processImage's   *)
(* groups for one config                                                    *)

PartConfigs ==
    [dirExists : BOOLEAN, listing : DistinctSeqs(Paths, MaxFiles),
     outputDir : {"out"}, scales : DistinctSeqs(Scales, Cardinality(Scales)),
     threadsPerScale : 1..MaxThreads, maxWorkers : {maxWorkers}]

PartInit ==
    /\ configs = <<>>
    /\ mainPc = "start"
    /\ globalProgress = [total |-> 0, processed |-> 0]
    /\ configFilesCounts = <<>>
    /\ jobState = <<>>
    /\ poolPromise = <<>>
    /\ workers = <<>>
    /\ dirs = {}
    /\ \E config \in PartConfigs : part = [NoPart EXCEPT !.config = config]

\* index.js:532-555 for the config, then (when main calls processImage at
\* all, index.js:578-586) index.js:380-412
Partition ==
    /\ ~part.done
    /\ LET e == EnumerateConfig(part.config)
       IN  part' = [part EXCEPT
                       !.done = TRUE,
                       !.files = e.files,
                       !.total = e.units,
                       !.groups = IF e.fileCount = 0 THEN <<>>
                                  ELSE AllWorkerGroups(e.files, part.config.scales,
                                                       part.config.threadsPerScale)]
    /\ UNCHANGED runVars

PartNext == Partition

PartSpec == PartInit /\ [][PartNext]_vars

----------------------------------------------------------------------------
(* calculateCropArea on its own, for every size up to MaxDim and every     *)
(* anchor                                                                   *)

CropInputs ==
    [originalWidth : 1..MaxDim, originalHeight : 1..MaxDim,
     targetWidth : 1..MaxDim, targetHeight : 1..MaxDim, cropPosition : Anchors]

CropInit ==
    /\ configs = <<>>
    /\ mainPc = "start"
    /\ globalProgress = [total |-> 0, processed |-> 0]
    /\ configFilesCounts = <<>>
    /\ jobState = <<>>
    /\ poolPromise = <<>>
    /\ workers = <<>>
    /\ dirs = {}
    /\ \E in \in CropInputs :
          part = [in |-> in, done |-> FALSE,
                  area |-> [left |-> 0, top |-> 0, width |-> 0, height |-> 0]]

\* the call at index.js:306-312
Crop ==
    /\ ~part.done
    /\ part' = [part EXCEPT
                   !.done = TRUE,
                   !.area = calculateCropArea(part.in.originalWidth,
                                              part.in.originalHeight,
                                              part.in.targetWidth,
                                              part.in.targetHeight,
                                              part.in.cropPosition)]
    /\ UNCHANGED runVars

CropNext == Crop

CropSpec == CropInit /\ [][CropNext]_vars

----------------------------------------------------------------------------
(* The file-chunked variant of processImage (unnamed/part_001:61-75, 209-275):
   the files of one job are cut into contiguous chunks, one worker a chunk,
   and every worker runs all scales of its files *)

\* part_001:62-68, for chunkSize >= 1: the slices array.slice(i, i + chunkSize)
\* for i = 0, chunkSize, 2 * chunkSize, ... below array.length (i counts from 1
\* here)
RECURSIVE ChunksFrom(_, _, _)
ChunksFrom(array, chunkSize, i) ==
    IF i > Len(array) THEN <<>>
    ELSE <<SubSeq(array, i, Min(i + chunkSize - 1, Len(array)))>>
            \o ChunksFrom(array, chunkSize, i + chunkSize)

chunkArray(array, chunkSize) == ChunksFrom(array, chunkSize, 1)

\* part_001:71-75; cpuCount is os.cpus().length
getOptimalWorkerCount(maxW, cpuCount, fileCount) ==
    Min(Min(cpuCount, maxW), fileCount)

\* filesPerWorker with a fault: Math.floor in the place of Math.ceil
filesPerWorkerFloor(fileCount, workerCount) ==
    Max(1, fileCount \div workerCount)

\* part_001:224: Math.ceil(imageFiles.length / workerCount)
filesPerWorker(fileCount, workerCount) ==
    Ceil(fileCount, workerCount)

\* new Worker(__filename, { workerData: { files: chunk, ... } }) and the
\* promise made for it (part_001:232-262)
NewChunkWorker(chunk) ==
    [files      |-> chunk,
     thread     |-> "running",     \* running, posted, exited
     inbox      |-> <<>>,          \* events not yet handled by the parent
     promise    |-> "pending",     \* pending, resolved, rejected
     terminated |-> FALSE]         \* worker.terminate() was called

ChunkWorkerIds == 1..Len(workers)

\* the inputs of a call: main calls processImage with one file at least
\* (part_001:295-300, 318-321), maxWorkers comes from the config and the
\* number of CPUs from the machine; a file is named by its place in the
\* listing of the input directory
ChunkInputs ==
    [imageFiles : { [k \in 1..n |-> k] : n \in 1..MaxFiles },
     maxWorkers : 1..MaxThreads,
     cpuCount   : 1..MaxThreads]

ChunkInit ==
    /\ part \in ChunkInputs
    /\ jobState = <<"PENDING">>
    /\ poolPromise = <<"none">>
    /\ workers = <<>>
    /\ configs = <<>>
    /\ mainPc = "awaiting"
    /\ globalProgress = [total |-> 0, processed |-> 0]
    /\ configFilesCounts = <<>>
    /\ dirs = {}

\* part_001:210-262, down to the await: with one worker or one file the files
\* are processed in the main thread, one after the other, and the call
\* returns (processImageSingle catches whatever a file throws,
\* part_001:194-195); otherwise one worker is spawned for every chunk that is
\* not empty
ChunkedProcessImage ==
    /\ jobState[1] = "PENDING"
    /\ LET n == Len(part.imageFiles)
           workerCount == getOptimalWorkerCount(part.maxWorkers, part.cpuCount, n)
           fileChunks == chunkArray(part.imageFiles, filesPerWorker(n, workerCount))
           spawned == SelectSeq(fileChunks, LAMBDA chunk : Len(chunk) # 0)
       IN  IF workerCount = 1 \/ n = 1
           THEN /\ jobState' = <<"COMPLETED">>
                /\ UNCHANGED <<workers, poolPromise>>
           ELSE /\ workers' = [i \in 1..Len(spawned) |-> NewChunkWorker(spawned[i])]
                /\ poolPromise' = <<"pending">>
                /\ jobState' = <<"EXECUTING">>
    /\ UNCHANGED <<configs, mainPc, globalProgress, configFilesCounts, dirs, part>>

\* part_001:82-98: the worker ran its files and posts success: true, or
\* something threw in its try block and its catch posts success: false
ChunkWorkerPost(i, success) ==
    /\ workers[i].thread = "running"
    /\ workers' = [workers EXCEPT
          ![i].thread = "posted",
          ![i].inbox = Append(@, IF success THEN MessageOk(<<>>) ELSE MessageFail)]
    /\ UNCHANGED <<configs, mainPc, globalProgress, configFilesCounts, jobState,
                   poolPromise, dirs, part>>

\* an error nothing catches in the worker thread (the postMessage of the catch
\* itself throwing, or the thread running out of memory): 'error', then
\* 'exit' with code 1
ChunkWorkerUncaught(i) ==
    /\ workers[i].thread = "running"
    /\ workers' = [workers EXCEPT
          ![i].thread = "exited",
          ![i].inbox = @ \o <<ErrorEvent, ExitEvent(1)>>]
    /\ UNCHANGED <<configs, mainPc, globalProgress, configFilesCounts, jobState,
                   poolPromise, dirs, part>>

\* the thread ends: with code 0 when its function has returned, with another
\* code when it is ended while it runs
ChunkWorkerExit(i) ==
    /\ workers[i].thread \in {"running", "posted"}
    /\ workers' = [workers EXCEPT
          ![i].thread = "exited",
          ![i].inbox = Append(@, ExitEvent(IF workers[i].thread = "posted"
                                           THEN 0 ELSE 1))]
    /\ UNCHANGED <<configs, mainPc, globalProgress, configFilesCounts, jobState,
                   poolPromise, dirs, part>>

\* Promise.all(promises) can settle (part_001:267)
ChunkPoolSettleEnabled ==
    /\ poolPromise[1] = "pending"
    /\ \/ \E i \in ChunkWorkerIds : workers[i].promise = "rejected"
       \/ \A i \in ChunkWorkerIds : workers[i].promise = "resolved"

\* processImage can resume after its await
ChunkContinueEnabled ==
    /\ jobState[1] = "EXECUTING"
    /\ poolPromise[1] \in {"resolved", "rejected"}

\* part_001:245-259: the listeners of worker i handle its next event, once
\* the promise continuations of the event before have run; resolve and reject
\* do nothing to a settled promise
ChunkOnEvent(i) ==
    /\ jobState[1] = "EXECUTING"
    /\ ~ChunkPoolSettleEnabled
    /\ ~ChunkContinueEnabled
    /\ workers[i].inbox # <<>>
    /\ LET kind == Kind(Head(workers[i].inbox))
           settled == IF kind = "ok" THEN "resolved"
                      ELSE IF kind = "exit0" THEN "pending"
                      ELSE "rejected"
       IN  workers' = [workers EXCEPT
              ![i].inbox = Tail(@),
              ![i].promise = IF @ = "pending" THEN settled ELSE @]
    /\ UNCHANGED <<configs, mainPc, globalProgress, configFilesCounts, jobState,
                   poolPromise, dirs, part>>

\* part_001:267: Promise.all rejects with the first rejected promise and
\* resolves when every promise is resolved
ChunkPoolSettle ==
    /\ ChunkPoolSettleEnabled
    /\ poolPromise' =
          <<IF \E i \in ChunkWorkerIds : workers[i].promise = "rejected"
            THEN "rejected" ELSE "resolved">>
    /\ UNCHANGED <<configs, mainPc, globalProgress, configFilesCounts, jobState,
                   workers, dirs, part>>

\* ChunkContinue with a fault: the workers are terminated in the catch block,
\* so only when the pool was rejected
ChunkContinueTerminatesOnError ==
    /\ ChunkContinueEnabled
    /\ workers' = [i \in ChunkWorkerIds |->
                      IF poolPromise[1] = "rejected"
                      THEN [workers[i] EXCEPT !.thread = "exited", !.terminated = TRUE]
                      ELSE workers[i]]
    /\ jobState' = <<IF poolPromise[1] = "rejected" THEN "FAILED" ELSE "COMPLETED">>
    /\ UNCHANGED <<configs, mainPc, globalProgress, configFilesCounts,
                   poolPromise, dirs, part>>

\* part_001:264-274: after the await the catch block rethrows the rejection,
\* and the finally block calls worker.terminate() on every worker either way
ChunkContinue ==
    /\ ChunkContinueEnabled
    /\ workers' = [i \in ChunkWorkerIds |->
                      [workers[i] EXCEPT !.thread = "exited", !.terminated = TRUE]]
    /\ jobState' = <<IF poolPromise[1] = "rejected" THEN "FAILED" ELSE "COMPLETED">>
    /\ UNCHANGED <<configs, mainPc, globalProgress, configFilesCounts,
                   poolPromise, dirs, part>>

ChunkNext ==
    \/ ChunkedProcessImage
    \/ \E i \in ChunkWorkerIds : \E success \in BOOLEAN : ChunkWorkerPost(i, success)
    \/ \E i \in ChunkWorkerIds : ChunkWorkerUncaught(i)
    \/ \E i \in ChunkWorkerIds : ChunkWorkerExit(i)
    \/ \E i \in ChunkWorkerIds : ChunkOnEvent(i)
    \/ ChunkPoolSettle
    \/ ChunkContinue

ChunkSpec == ChunkInit /\ [][ChunkNext]_vars

----------------------------------------------------------------------------

(* Claims *)

Range(s) == { s[k] : k \in 1..Len(s) }

\* the places <<g, p>> of the groups that hold file f at scale sc
Places(groups, f, sc) ==
    { gp \in UNION { { <<g, p>> : p \in 1..Len(groups[g].files) }
                     : g \in 1..Len(groups) } :
        /\ groups[gp[1]].scale = sc
        /\ groups[gp[1]].files[gp[2]] = f }

\* C1: the worker groups processImage builds hold every (file, scale) pair
\* of the job exactly once, and nothing else.
C1_EachPairExactlyOnce ==
    (part.done /\ Len(part.files) > 0) =>
        /\ \A f \in Range(part.files) : \A sc \in Range(part.config.scales) :
              Cardinality(Places(part.groups, f, sc)) = 1
        /\ \A g \in 1..Len(part.groups) :
              /\ part.groups[g].scale \in Range(part.config.scales)
              /\ Range(part.groups[g].files) \subseteq Range(part.files)

C1_Witness ==
    /\ part.done
    /\ Len(part.files) = 3
    /\ Len(part.config.scales) = 2
    /\ part.config.threadsPerScale = 2
    /\ Len(part.groups) = 4

\* the units of all groups
GroupUnits(groups) == SumSeq([g \in 1..Len(groups) |-> Len(groups[g].files)])

\* C4: the total main computes for a config equals the number of units in
\* the groups processImage builds for it; a config whose directory cannot
\* be listed counts 0.
C4_TotalIsGroupUnits ==
    part.done =>
        /\ part.total = GroupUnits(part.groups)
        /\ ~part.config.dirExists => part.total = 0

C4_Witness ==
    /\ part.done
    /\ Len(part.files) = 3
    /\ part.config.threadsPerScale = 2
    /\ Len(part.config.scales) = 2
    /\ part.total = 6

\* C5: the results a worker posts have one entry per file of its group, in
\* order, with success = false and an error exactly for the units that
\* failed; the loop goes on after a failed unit.
C5_FailureIsolation ==
    \A j \in Jobs : \A i \in WorkerIds(j) :
        LET w == workers[j][i]
        IN  /\ Len(w.results) = Len(w.outcomes)
            /\ \A p \in 1..Len(w.results) :
                  /\ w.results[p].file = w.files[p]
                  /\ w.results[p].success = (w.outcomes[p] = "ok")
                  /\ w.results[p].success = (w.results[p].error = "none")
            /\ \A k \in 1..Len(w.inbox) :
                  (w.inbox[k].type = "message" /\ w.inbox[k].success) =>
                      /\ Len(w.inbox[k].results) = Len(w.files)
                      /\ w.thread = "posted" => w.inbox[k].results = w.results

C5_Witness ==
    \E j \in Jobs : \E i \in WorkerIds(j) :
        LET w == workers[j][i]
        IN  /\ w.thread = "posted"
            /\ w.outcomes = <<"ok", "readError", "ok">>
            /\ w.inbox = <<MessageOk(w.results)>>
            /\ Len(w.results) = 3

----------------------------------------------------------------------------
(* Claims about a run *)

AllJobsFinished == \A j \in Jobs : jobState[j] \in {"COMPLETED", "FAILED"}
AllJobsCompleted == \A j \in Jobs : jobState[j] = "COMPLETED"

ProgressInBounds ==
    /\ 0 <= globalProgress.processed
    /\ globalProgress.processed <= globalProgress.total

ProgressNeverDecreases ==
    [][globalProgress'.processed >= globalProgress.processed]_vars

\* C2 as stated: processed never decreases, 0 <= processed <= total, and
\* once all jobs have finished (completed or failed), processed = total.
C2_Original ==
    /\ ProgressNeverDecreases
    /\ [](ProgressInBounds
          /\ (AllJobsFinished => globalProgress.processed = globalProgress.total))

\* C2, amended: processed never decreases, 0 <= processed <= total, and
\* once all jobs have finished successfully, processed = total.
C2_ProgressSafety ==
    /\ ProgressNeverDecreases
    /\ [](ProgressInBounds
          /\ (AllJobsCompleted => globalProgress.processed = globalProgress.total))

C2_Witness ==
    /\ mainPc = "done"
    /\ Len(configs) = 2
    /\ \A j \in Jobs : Len(workers[j]) > 0
    /\ globalProgress.processed = 2
    /\ globalProgress.total = 2

\* the job has no group whose success the parent has still to count
NothingOutstanding(j) ==
    \/ /\ jobState[j] # "PENDING"
       /\ configFilesCounts[j].fileCount = 0
    \/ /\ jobState[j] \in {"EXECUTING", "COMPLETED"}
       /\ \A i \in WorkerIds(j) : workers[j][i].cont = "fulfilled"

\* C3 as stated: once globalProgress exists, processed = total holds exactly
\* in the states where every job has finished successfully.
C3_Original ==
    mainPc # "start" =>
        ((globalProgress.processed = globalProgress.total) <=> AllJobsCompleted)

\* C3, amended: processed = total holds whenever every job has finished
\* successfully, never when a job has failed, and only when no job has a
\* group left whose success the parent has not counted.
C3_EqualWhenAllCounted ==
    mainPc # "start" =>
        /\ AllJobsCompleted => globalProgress.processed = globalProgress.total
        /\ (\E j \in Jobs : jobState[j] = "FAILED")
              => globalProgress.processed < globalProgress.total
        /\ (globalProgress.processed = globalProgress.total)
              => \A j \in Jobs : NothingOutstanding(j)

C3_Witness ==
    /\ globalProgress.total > 0
    /\ globalProgress.processed = globalProgress.total
    /\ \E j \in Jobs : jobState[j] = "EXECUTING"
    /\ \E j \in Jobs : \E i \in WorkerIds(j) :
          \E p \in 1..Len(workers[j][i].value) : ~workers[j][i].value[p].success

\* the unit a running thread is working on
Busy(j, i) ==
    /\ workers[j][i].thread = "running"
    /\ Len(workers[j][i].results) < Len(workers[j][i].files)

CurrentOutputPath(j, i) ==
    OutputPath(configs[j].outputDir, workers[j][i].scale,
               workers[j][i].files[Len(workers[j][i].results) + 1])

\* C6: two workers of one job never work at the same time on units with
\* the same outputPath.
C6_NoConcurrentSameOutputPath ==
    \A j \in Jobs : \A i1, i2 \in WorkerIds(j) :
        (i1 # i2 /\ Busy(j, i1) /\ Busy(j, i2))
            => CurrentOutputPath(j, i1) # CurrentOutputPath(j, i2)

\* the main thread is between two tasks, or the process is over
Quiescent == mainPc = "exited" \/ ~MicrotaskPending

\* the parent saw the worker leave through one of its four exit paths
ReportedSuccess(w) == "ok" \in w.seen
ReportedFailure(w) ==
    /\ "ok" \notin w.seen
    /\ w.seen \cap {"fail", "error", "exit1"} # {}

\* C7: whenever the main thread is between two tasks, every worker whose
\* success message, failure message, error event or non-zero exit it has
\* handled has had worker.terminate() called on it.
C7_EveryExitPathTerminates ==
    Quiescent =>
        \A j \in Jobs : \A i \in WorkerIds(j) :
            (ReportedSuccess(workers[j][i]) \/ ReportedFailure(workers[j][i]))
                => workers[j][i].terminated

C7_Witness ==
    \E j \in Jobs : \E i1, i2 \in WorkerIds(j) :
        /\ workers[j][i1].seen = {"ok"}
        /\ workers[j][i1].terminated
        /\ workers[j][i2].seen = {"exit1"}
        /\ workers[j][i2].promise = "rejected"
        /\ workers[j][i2].terminated

\* C8: once processImage has rejected to its caller, every worker of that
\* job has been terminated.
C8_SiblingsTerminatedOnFailure ==
    \A j \in Jobs :
        jobState[j] = "FAILED" =>
            \A i \in WorkerIds(j) : workers[j][i].terminated

\* C9: processImage resolves only with the results of every group's
\* success message, and it has rejected whenever the main thread is between
\* two tasks and a group's worker has reported failure.
C9_FailsAtomically ==
    \A j \in Jobs :
        /\ (poolPromise[j] = "resolved" \/ jobState[j] = "COMPLETED") =>
              \A i \in WorkerIds(j) :
                  /\ ReportedSuccess(workers[j][i])
                  /\ workers[j][i].promise = "resolved"
                  /\ Len(workers[j][i].value) = Len(workers[j][i].files)
        /\ (Quiescent /\ \E i \in WorkerIds(j) : ReportedFailure(workers[j][i]))
              => poolPromise[j] = "rejected" /\ jobState[j] = "FAILED"

C9_Witness ==
    \E j \in Jobs : \E i1, i2 \in WorkerIds(j) :
        /\ poolPromise[j] = "rejected"
        /\ workers[j][i1].cont = "fulfilled"
        /\ workers[j][i2].seen = {"fail"}

\* C10 as stated: the job does not progress, by resolving or by rejecting,
\* before every dispatched group has reported.
C10_Original ==
    \A j \in Jobs :
        jobState[j] \in {"COMPLETED", "FAILED"} =>
            \A i \in WorkerIds(j) : workers[j][i].seen # {}

\* C10, amended: the job does not complete before every dispatched group
\* has reported success, and it does not fail before some group has
\* reported failure; a failure does not wait for the other groups.
C10_AwaitBlocksUntilReported ==
    \A j \in Jobs :
        /\ jobState[j] = "COMPLETED" =>
              \A i \in WorkerIds(j) : ReportedSuccess(workers[j][i])
        /\ jobState[j] = "FAILED" =>
              \E i \in WorkerIds(j) : ReportedFailure(workers[j][i])

C10_Witness ==
    \E j \in Jobs : \E i \in WorkerIds(j) :
        /\ jobState[j] = "FAILED"
        /\ workers[j][i].seen = {}
        /\ workers[j][i].promise = "pending"

----------------------------------------------------------------------------
\* a step in which the group of worker i of job j is counted: its function
\* goes from awaiting to fulfilled and processed grows by the group's size
CountsGroup(j, i) ==
    /\ workers[j][i].cont = "awaiting"
    /\ workers'[j][i].cont = "fulfilled"
    /\ globalProgress'.processed =
          globalProgress.processed + Len(workers[j][i].files)

\* C11: processed changes only in a step that counts one group whose worker
\* has reported all its units (the success message was handled and the
\* thread is past its loop), and it grows by the number of files of the
\* group, failed units included; a group's function never leaves fulfilled
\* or rejected, so none is counted twice; and once the continuations have
\* run every reported group has been counted.
C11_CountedOncePerReportedGroup ==
    /\ [][/\ globalProgress'.processed # globalProgress.processed =>
               \E j \in Jobs : \E i \in WorkerIds(j) :
                   /\ CountsGroup(j, i)
                   /\ "ok" \in workers[j][i].seen
                   /\ Len(workers[j][i].value) = Len(workers[j][i].files)
                   /\ workers[j][i].thread # "running"
                   /\ \A k \in Jobs : \A m \in WorkerIds(k) :
                         <<k, m>> # <<j, i>> =>
                             workers'[k][m].cont = workers[k][m].cont
          /\ \A j \in Jobs : \A i \in WorkerIds(j) :
                workers[j][i].cont # "awaiting" =>
                    workers'[j][i].cont = workers[j][i].cont]_vars
    /\ [](~MicrotaskPending /\ mainPc # "exited" =>
             \A j \in Jobs : \A i \in WorkerIds(j) :
                 "ok" \in workers[j][i].seen => workers[j][i].cont = "fulfilled")

C11_Witness ==
    \E j \in Jobs : \E i \in WorkerIds(j) :
        /\ workers[j][i].cont = "fulfilled"
        /\ Len(workers[j][i].files) = 2
        /\ \E p \in 1..Len(workers[j][i].value) : ~workers[j][i].value[p].success
        /\ globalProgress.processed = 2

----------------------------------------------------------------------------
\* C12: for every scale, the file at enumeration index i (from 0) sits in
\* the group of that scale with groupIndex i % threadsPerScale (the records
\* count groupIndex from 1), at position i \div threadsPerScale, so the files
\* of a group are in enumeration order; and the worker of a group is given
\* that group's scale as its only scale.
C12_RoundRobinOneScaleInOrder ==
    (part.done /\ Len(part.files) > 0) =>
        LET t == part.config.threadsPerScale
        IN  /\ \A i \in 0..(Len(part.files) - 1) :
                  \A sc \in Range(part.config.scales) :
                      \E g \in 1..Len(part.groups) :
                          /\ part.groups[g].scale = sc
                          /\ part.groups[g].groupIndex = (i % t) + 1
                          /\ Len(part.groups[g].files) >= (i \div t) + 1
                          /\ part.groups[g].files[(i \div t) + 1] = part.files[i + 1]
            /\ \A g \in 1..Len(part.groups) :
                  /\ NewWorker(part.groups[g]).scales = <<part.groups[g].scale>>
                  /\ NewWorker(part.groups[g]).files = part.groups[g].files

C12_Witness ==
    /\ part.done
    /\ Len(part.files) = 3
    /\ part.config.threadsPerScale = 2
    /\ \E g \in 1..Len(part.groups) :
          /\ part.groups[g].groupIndex = 1
          /\ part.groups[g].files = <<part.files[1], part.files[3]>>

----------------------------------------------------------------------------
\* the round-robin groups of one scale that get no file
EmptyGroups(fileCount, threadsPerScale) ==
    (0..(threadsPerScale - 1)) \ { i % threadsPerScale : i \in 0..(fileCount - 1) }

\* C13: no group of allWorkerGroups is empty, and their number (one worker is
\* spawned for each) is scales.length * threadsPerScale less the empty
\* round-robin groups, which is scales.length * min(threadsPerScale, fileCount).
C13_NoEmptyGroupWorkerCount ==
    part.done =>
        LET t == part.config.threadsPerScale
            n == Len(part.files)
            k == Len(part.config.scales)
        IN  /\ \A g \in 1..Len(part.groups) : Len(part.groups[g].files) > 0
            /\ Len(part.groups) = k * t - k * Cardinality(EmptyGroups(n, t))
            /\ Len(part.groups) = k * Min(t, n)
            /\ Len([i \in 1..Len(part.groups) |-> NewWorker(part.groups[i])])
                  = k * Min(t, n)

C13_Witness ==
    /\ part.done
    /\ Len(part.files) = 2
    /\ part.config.threadsPerScale = 3
    /\ Len(part.config.scales) = 2
    /\ Len(part.groups) = 4

----------------------------------------------------------------------------
\* the worker threads of job j that are alive
LiveWorkers(j) == { i \in WorkerIds(j) : workers[j][i].thread # "exited" }

\* C14: at every moment the number of live worker threads of a job is at
\* most the job's maxWorkers.
C14_LiveWorkersWithinMaxWorkers ==
    \A j \in Jobs : Cardinality(LiveWorkers(j)) <= configs[j].maxWorkers

----------------------------------------------------------------------------
\* the results r are the results of the first Len(r) of the files, in order
InFileOrder(r, files) ==
    /\ Len(r) <= Len(files)
    /\ \A p \in 1..Len(r) : r[p].file = files[p]

\* C15: a worker has started at most one unit beyond those whose results it
\* holds, the results it holds are those of the first files of its group in
\* the order of the file list, and a posted result list has one result per
\* file in that order.
C15_UnitsInFileOrder ==
    \A j \in Jobs : \A i \in WorkerIds(j) :
        LET w == workers[j][i]
        IN  /\ w.started <= Len(w.results) + 1
            /\ w.started >= Len(w.results)
            /\ InFileOrder(w.results, w.files)
            /\ \A k \in 1..Len(w.inbox) :
                  (w.inbox[k].type = "message" /\ w.inbox[k].success) =>
                      /\ Len(w.inbox[k].results) = Len(w.files)
                      /\ InFileOrder(w.inbox[k].results, w.files)

C15_Witness ==
    \E j \in Jobs : \E i \in WorkerIds(j) :
        /\ Len(workers[j][i].files) = 3
        /\ workers[j][i].thread = "posted"
        /\ workers[j][i].inbox # <<>>
        /\ Head(workers[j][i].inbox).success
        /\ Len(Head(workers[j][i].inbox).results) = 3
        /\ ~Head(workers[j][i].inbox).results[2].success

----------------------------------------------------------------------------
\* nothing is left to happen: the continuations have run, every thread has
\* ended and every event has been handled
RunAtRest ==
    /\ mainPc \notin {"start", "starting"}
    /\ ~MicrotaskPending
    /\ \A j \in Jobs : \A i \in WorkerIds(j) :
          workers[j][i].thread = "exited" /\ workers[j][i].inbox = <<>>

\* the units main counts for the configs whose input directory exists
UnitsOfExistingDirs ==
    SumSeq([k \in Jobs |->
               IF configs[k].dirExists
               THEN ProcessingUnits(Len(getImageFiles(configs[k]).files),
                                    configs[k].scales, configs[k].threadsPerScale)
               ELSE 0])

----------------------------------------------------------------------------
\* the thread of worker i of job j has posted its results
PostedResults(j, i) ==
    \/ "ok" \in workers[j][i].seen
    \/ \E k \in 1..Len(workers[j][i].inbox) : Kind(workers[j][i].inbox[k]) = "ok"

\* no worker of job j failed as a whole
NoCrashIn(j) == \A i \in WorkerIds(j) : ~workers[j][i].crashed

\* C17 as stated: the failure of one job never reaches a sibling job: in a
\* job none of whose workers failed, no thread ends before it has posted
\* the results of its group.
C17_Original ==
    \A k \in Jobs : NoCrashIn(k) =>
        \A i \in WorkerIds(k) :
            workers[k][i].thread = "exited" => PostedResults(k, i)

\* C17, amended: a job is marked failed only by the failure of one of its
\* own workers, and until the process exits no thread of a job without such
\* a failure ends before it has posted its results; but the first failed job
\* makes main call process.exit(1), which ends every thread of every job
\* where it stands, and after which nothing is counted any more (a run with
\* jobs exits in no other way).
C17_OnlyExitReachesSiblings ==
    /\ [](\A k \in Jobs : jobState[k] = "FAILED" => ~NoCrashIn(k))
    /\ [](mainPc # "exited" =>
             \A k \in Jobs : NoCrashIn(k) =>
                 \A i \in WorkerIds(k) :
                     workers[k][i].thread = "exited" => PostedResults(k, i))
    /\ []((Jobs # {} /\ mainPc = "exited") =>
             /\ \E j \in Jobs : jobState[j] = "FAILED"
             /\ \A k \in Jobs : \A i \in WorkerIds(k) :
                   workers[k][i].thread = "exited")
    /\ [][mainPc = "exited" => UNCHANGED vars]_vars

C17_Witness ==
    /\ mainPc = "exited"
    /\ \E j \in Jobs : \E k \in Jobs \ {j} :
          /\ jobState[j] = "FAILED"
          /\ jobState[k] = "EXECUTING"
          /\ NoCrashIn(k)
          /\ \E i \in WorkerIds(k) :
                /\ workers[k][i].thread = "exited"
                /\ ~PostedResults(k, i)
                /\ workers[k][i].cont = "awaiting"

----------------------------------------------------------------------------
\* the kinds of the events worker i of job j has sent so far
SentKinds(j, i) ==
    workers[j][i].seen
        \cup { Kind(workers[j][i].inbox[k]) : k \in 1..Len(workers[j][i].inbox) }

\* C18: in a run with jobs, as long as no worker thread has failed as a
\* whole, whatever units have failed, no worker has sent a failure message or
\* an error, no group's
\* promise and no pool is rejected, no job is failed and the process has not
\* exited with an error; and such a run comes to rest with every pool
\* resolved, every job completed and main done.
C18_UnitErrorsNeverEscalate ==
    (Jobs # {} /\ \A j \in Jobs : NoCrashIn(j)) =>
        /\ \A j \in Jobs : \A i \in WorkerIds(j) :
              /\ SentKinds(j, i) \cap {"fail", "error"} = {}
              /\ workers[j][i].promise # "rejected"
              /\ workers[j][i].cont # "rejected"
        /\ \A j \in Jobs : poolPromise[j] # "rejected" /\ jobState[j] # "FAILED"
        /\ mainPc # "exited"
        /\ RunAtRest =>
              /\ \A j \in Jobs : poolPromise[j] \in {"none", "resolved"}
              /\ \A j \in Jobs : jobState[j] = "COMPLETED"
              /\ mainPc = "done"

C18_Witness ==
    /\ mainPc = "done"
    /\ \A j \in Jobs : NoCrashIn(j) /\ jobState[j] = "COMPLETED"
    /\ \E j \in Jobs : \E i \in WorkerIds(j) :
          /\ poolPromise[j] = "resolved"
          /\ workers[j][i].promise = "resolved"
          /\ \E p \in 1..Len(workers[j][i].value) :
                workers[j][i].value[p].error = "writeError"

----------------------------------------------------------------------------
\* C19: main never reaches its normal end in a run in which a worker thread
\* failed as a whole, and once the parent has handled a worker's failure
\* message, error event or abnormal exit and its continuations have run,
\* the process has exited with status 1; with one config as with several.
C19_FatalErrorExitsNonZero ==
    /\ mainPc = "done" => \A j \in Jobs : NoCrashIn(j)
    /\ ~MicrotaskPending =>
          \A j \in Jobs : \A i \in WorkerIds(j) :
              ReportedFailure(workers[j][i]) => mainPc = "exited"

C19_Witness ==
    /\ mainPc = "exited"
    /\ Len(configs) = 2
    /\ \E j \in Jobs : \E i \in WorkerIds(j) :
          /\ workers[j][i].crashed
          /\ workers[j][i].seen = {"exit1"}
          /\ jobState[j] = "FAILED"

----------------------------------------------------------------------------
\* C20: a job that has workers has its output directory and the directory
\* of every one of its scales; ensureDir on a directory that exists, whoever
\* made it, raises no error and changes nothing; and no job fails without a
\* worker, that is in the creation of its directories.
C20_DirsBeforeWorkers ==
    /\ \A j \in Jobs : Len(workers[j]) > 0 =>
          /\ <<configs[j].outputDir>> \in dirs
          /\ \A k \in 1..Len(configs[j].scales) :
                ScaleDir(configs[j].outputDir, configs[j].scales[k]) \in dirs
    /\ \A d \in dirs : ensureDir(dirs, d) = [dirs |-> dirs, threw |-> FALSE]
    /\ \A j \in Jobs : jobState[j] = "FAILED" => Len(workers[j]) > 0

C20_Witness ==
    /\ Len(configs) = 2
    /\ configs[1].outputDir = configs[2].outputDir
    /\ Len(workers[1]) > 0 /\ Len(workers[2]) > 0
    /\ \E i \in WorkerIds(1) : workers[1][i].thread = "running"
    /\ jobState[2] = "EXECUTING"
    /\ ScaleDir(configs[2].outputDir, 1) \in dirs

----------------------------------------------------------------------------
\* the jobs whose output directory resolves to that of another job
Conflicting ==
    { j \in Jobs : \E k \in Jobs \ {j} :
          Resolve(configs[k].outputDir) = Resolve(configs[j].outputDir) }

\* C21: when configs share an output directory main logs a warning, and
\* every one of those jobs is started before main awaits anything, while no
\* event of an earlier job has been handled; it has one worker for each of
\* its groups, is only failed by the failure of a worker of its own, and
\* when the run comes to rest without such a failure it is completed with
\* every group counted.
C21_ConflictWarnedNotSerialized ==
    /\ Conflicting # {} => Len(ConflictWarnings(configs)) >= 1
    /\ mainPc = "starting" =>
          \A j \in Jobs : \A i \in WorkerIds(j) : workers[j][i].seen = {}
    /\ \A j \in Conflicting :
          /\ mainPc \in {"awaiting", "done", "exited"} =>
                jobState[j] \in {"EXECUTING", "COMPLETED", "FAILED"}
          /\ (jobState[j] \in {"EXECUTING", "COMPLETED", "FAILED"}
                 /\ configFilesCounts[j].fileCount > 0) =>
                /\ Len(workers[j]) > 0
                /\ Len(workers[j]) =
                      Len(AllWorkerGroups(configFilesCounts[j].files,
                                          configs[j].scales,
                                          configs[j].threadsPerScale))
          /\ jobState[j] = "FAILED" => ~NoCrashIn(j)
          /\ (RunAtRest /\ \A k \in Jobs : NoCrashIn(k)) =>
                /\ jobState[j] = "COMPLETED"
                /\ \A i \in WorkerIds(j) : workers[j][i].cont = "fulfilled"

C21_Witness ==
    /\ Len(configs) = 2
    /\ Conflicting = {1, 2}
    /\ Len(ConflictWarnings(configs)) = 1
    /\ mainPc = "done"
    /\ \A j \in Jobs :
          /\ Len(workers[j]) = 1
          /\ workers[j][1].cont = "fulfilled"
          /\ jobState[j] = "COMPLETED"

----------------------------------------------------------------------------
\* the files the units of worker i of job j have written so far: a unit
\* that succeeded wrote its outputPath (index.js:326-340)
WrittenFiles(j, i) ==
    { OutputPath(configs[j].outputDir, workers[j][i].scale,
                 workers[j][i].results[p].file) :
          p \in { q \in 1..Len(workers[j][i].results) :
                     workers[j][i].results[q].success } }

\* C22 (its first half): when all units of a group succeeded, the files
\* written are the outputPaths of the group's files at its scale, one file
\* for each (file, scale) pair.
C22_OneFilePerPair ==
    \A j \in Jobs : \A i \in WorkerIds(j) :
        LET w == workers[j][i]
        IN  (/\ Len(w.results) = Len(w.files)
             /\ \A p \in 1..Len(w.results) : w.results[p].success) =>
                /\ WrittenFiles(j, i) =
                      { OutputPath(configs[j].outputDir, w.scale, w.files[p]) :
                           p \in 1..Len(w.files) }
                /\ Cardinality(WrittenFiles(j, i)) = Len(w.files)

----------------------------------------------------------------------------
\* the source is relatively wider than the target
Wider(in) == in.originalWidth * in.targetHeight > in.targetWidth * in.originalHeight

\* the rectangle calculateCropArea returns for the sizes of in and anchor a
AreaFor(in, a) ==
    calculateCropArea(in.originalWidth, in.originalHeight, in.targetWidth,
                      in.targetHeight, a)

\* C23: the rectangle returned has non-negative integer left, top, width and
\* height and lies inside the source: left + width <= originalWidth and
\* top + height <= originalHeight.
C23_CropInsideSource ==
    part.done =>
        /\ part.area.left \in Nat /\ part.area.top \in Nat
        /\ part.area.width \in Nat /\ part.area.height \in Nat
        /\ part.area.left + part.area.width <= part.in.originalWidth
        /\ part.area.top + part.area.height <= part.in.originalHeight

C23_Witness ==
    /\ part.done
    /\ part.area.left > 0
    /\ part.area.left + part.area.width = part.in.originalWidth
    /\ part.area.width < part.in.originalWidth

C25_AnchorMovesOnlyTop ==
    (part.done /\ ~Wider(part.in)) =>
        LET center == AreaFor(part.in, "center")
            top    == AreaFor(part.in, "top")
            bottom == AreaFor(part.in, "bottom")
        IN  /\ center.top = Round(part.in.originalHeight - center.height, 2)
            /\ top.top = 0
            /\ bottom.top = part.in.originalHeight - bottom.height
            /\ \A r \in {top, bottom} :
                  /\ r.left = center.left
                  /\ r.width = center.width
                  /\ r.height = center.height
            /\ \A a \in Anchors \ {"top", "bottom"} : AreaFor(part.in, a) = center
            /\ part.area = AreaFor(part.in, part.in.cropPosition)
            /\ part.in.cropPosition = "top" => part.area.top = 0
            /\ part.in.cropPosition = "bottom" =>
                  part.area.top = part.in.originalHeight - part.area.height
            /\ part.in.cropPosition \notin {"top", "bottom"} =>
                  part.area.top =
                      Round(part.in.originalHeight - part.area.height, 2)

C25_Witness ==
    /\ part.done
    /\ ~Wider(part.in)
    /\ part.in.cropPosition = "bottom"
    /\ part.area.top = 3
    /\ AreaFor(part.in, "center").top = 2
    /\ AreaFor(part.in, "left").top = 2

----------------------------------------------------------------------------
\* the name the README gives the output of a unit (README.md:66-71):
\* {original name}.webp for 1x, {original name}@x{k}.webp for k >= 2
ReadmePath(outputDir, scale, inputPath) ==
    IF scale = 1
    THEN <<outputDir, ParsedName(inputPath), ".webp">>
    ELSE <<outputDir, ParsedName(inputPath), "@x", scale, ".webp">>

\* C26: the file a successful unit has written has the name the README
\* documents for its source and scale.
C26_NamedAsReadme ==
    \A j \in Jobs : \A i \in WorkerIds(j) :
        \A p \in 1..Len(workers[j][i].results) :
            workers[j][i].results[p].success =>
                OutputPath(configs[j].outputDir, workers[j][i].scale,
                           workers[j][i].results[p].file)
                    = ReadmePath(configs[j].outputDir, workers[j][i].scale,
                                 workers[j][i].results[p].file)

----------------------------------------------------------------------------
\* the files of the groups, over all jobs, that satisfy Counts(worker)
FilesOfGroups(Counts(_)) ==
    SumSeq([j \in Jobs |->
               SumSeq([i \in WorkerIds(j) |->
                          IF Counts(workers[j][i])
                          THEN Len(workers[j][i].files) ELSE 0])])

GroupFulfilled(w) == w.cont = "fulfilled"

\* C27: at every moment processed is the sum of the sizes of the groups,
\* of all jobs, whose continuation has run after their success; and
\* whenever the main thread is between two tasks that is the sum over the
\* groups whose success message has been handled.
C27_NoLostIncrement ==
    /\ globalProgress.processed = FilesOfGroups(GroupFulfilled)
    /\ (~MicrotaskPending /\ mainPc # "exited") =>
          globalProgress.processed = FilesOfGroups(ReportedSuccess)

C27_Witness ==
    /\ Len(configs) = 2
    /\ workers[1] # <<>> /\ workers[2] # <<>>
    /\ workers[1][1].cont = "fulfilled"
    /\ workers[2][1].cont = "fulfilled"
    /\ globalProgress.processed = 2
    /\ mainPc = "awaiting"

----------------------------------------------------------------------------
\* the steps of a job: PENDING until main's counting loop has enumerated its
\* files (ENUMERATED); partitioning and spawning are one synchronous stretch
\* that ends in EXECUTING, or in COMPLETED at once for a job without files
JobSteps ==
    { <<"PENDING", "ENUMERATED">>, <<"ENUMERATED", "EXECUTING">>,
      <<"ENUMERATED", "COMPLETED">>, <<"EXECUTING", "COMPLETED">>,
      <<"EXECUTING", "FAILED">> }

\* C28: a job's state changes only by the steps PENDING, ENUMERATED,
\* EXECUTING, then COMPLETED or FAILED, a job without files going from
\* ENUMERATED to COMPLETED; a job has workers only once it is EXECUTING or
\* beyond, and they are the workers of the groups of its enumerated files;
\* workers are spawned once; a job that enumerated no file never has a
\* worker; and once a job is COMPLETED or FAILED its state, its workers and
\* the functions that count its groups do not change any more.
C28_JobStateMachine ==
    /\ [](\A j \in Jobs :
             /\ Len(workers[j]) > 0 =>
                   /\ jobState[j] \in {"EXECUTING", "COMPLETED", "FAILED"}
                   /\ LET groups == AllWorkerGroups(configFilesCounts[j].files,
                                                    configs[j].scales,
                                                    configs[j].threadsPerScale)
                      IN  /\ Len(workers[j]) = Len(groups)
                          /\ \A i \in WorkerIds(j) :
                                /\ workers[j][i].files = groups[i].files
                                /\ workers[j][i].scale = groups[i].scale
             /\ (jobState[j] # "PENDING" /\ configFilesCounts[j].fileCount = 0) =>
                   /\ workers[j] = <<>>
                   /\ jobState[j] \in {"ENUMERATED", "COMPLETED"})
    /\ [][\A j \in Jobs :
             /\ jobState'[j] # jobState[j] =>
                   <<jobState[j], jobState'[j]>> \in JobSteps
             /\ Len(workers[j]) > 0 => Len(workers'[j]) = Len(workers[j])
             /\ jobState[j] \in {"COMPLETED", "FAILED"} =>
                   /\ jobState'[j] = jobState[j]
                   /\ Len(workers'[j]) = Len(workers[j])
                   /\ \A i \in WorkerIds(j) :
                         workers'[j][i].cont = workers[j][i].cont]_vars

C28_Witness ==
    /\ Len(configs) = 2
    /\ configs[2].dirExists
    /\ configFilesCounts[2].fileCount = 0
    /\ jobState[2] = "COMPLETED"
    /\ workers[2] = <<>>
    /\ jobState[1] = "COMPLETED"
    /\ Len(workers[1]) = 2
    /\ mainPc = "done"

----------------------------------------------------------------------------
\* C29: a worker whose success message the parent has handled keeps a
\* resolved promise with one result per file, whatever events of it are
\* handled later; its group's function is never rejected; its group is in
\* processed no more than once; and a job all of whose workers have had
\* their success handled has no rejected pool and is not failed.
C29_OutcomeDecidedOnce ==
    /\ \A j \in Jobs : \A i \in WorkerIds(j) :
          ReportedSuccess(workers[j][i]) =>
              /\ workers[j][i].promise = "resolved"
              /\ Len(workers[j][i].value) = Len(workers[j][i].files)
              /\ workers[j][i].cont # "rejected"
    /\ globalProgress.processed <= FilesOfGroups(ReportedSuccess)
    /\ \A j \in Jobs :
          (\A i \in WorkerIds(j) : ReportedSuccess(workers[j][i])) =>
              poolPromise[j] # "rejected" /\ jobState[j] # "FAILED"

C29_Witness ==
    \E j \in Jobs : \E i \in WorkerIds(j) :
        /\ {"ok", "exit1"} \subseteq workers[j][i].seen
        /\ workers[j][i].inbox = <<>>
        /\ workers[j][i].terminated
        /\ workers[j][i].promise = "resolved"
        /\ workers[j][i].cont = "fulfilled"
        /\ jobState[j] = "COMPLETED"
        /\ globalProgress.processed = Len(workers[j][i].files)

----------------------------------------------------------------------------
\* C30: with n files and threadsPerScale t, the group of a scale with
\* 0-based index g holds ceil((n - g) / t) files, the indexes without a
\* group being those for which that is 0; two groups differ by at most one
\* file; and every scale has the same groups of files.
C30_RoundRobinBalance ==
    (part.done /\ Len(part.files) > 0) =>
        LET t == part.config.threadsPerScale
            n == Len(part.files)
            Of(sc) == { g \in 1..Len(part.groups) : part.groups[g].scale = sc }
        IN  /\ \A g \in 1..Len(part.groups) :
                  Len(part.groups[g].files)
                      = Ceil(n - (part.groups[g].groupIndex - 1), t)
            /\ \A sc \in Range(part.config.scales) :
                  { part.groups[g].groupIndex - 1 : g \in Of(sc) }
                      = { g \in 0..(t - 1) : n - g > 0 }
            /\ \A g1, g2 \in 1..Len(part.groups) :
                  /\ Len(part.groups[g1].files) - Len(part.groups[g2].files) <= 1
                  /\ part.groups[g1].groupIndex = part.groups[g2].groupIndex =>
                        part.groups[g1].files = part.groups[g2].files

C30_Witness ==
    /\ part.done
    /\ Len(part.files) = 3
    /\ part.config.threadsPerScale = 2
    /\ Len(part.config.scales) = 2
    /\ Len(part.groups) = 4
    /\ Len(part.groups[1].files) = 2
    /\ Len(part.groups[2].files) = 1
    /\ part.groups[3].files = part.groups[1].files

----------------------------------------------------------------------------
\* C31: when the config loader supplies an empty list of configs, the run
\* spawns no worker, leaves globalProgress at total = processed = 0, and
\* finishes normally: once main has left its counting loop it is never in the
\* state reached through console.error and process.exit(1).
C31_EmptyListFinishesNormally ==
    Len(configs) = 0 =>
        /\ workers = <<>>
        /\ globalProgress = [total |-> 0, processed |-> 0]
        /\ mainPc # "exited"

----------------------------------------------------------------------------
(* Claims about the file-chunked variant *)

RECURSIVE Concat(_)
Concat(ss) == IF ss = <<>> THEN <<>> ELSE Head(ss) \o Concat(Tail(ss))

\* the call has ended: processImage returned or threw
ChunkCallEnded == jobState[1] \in {"COMPLETED", "FAILED"}

\* C32: in the file-chunked processImage with n >= 2 files and
\* w = min(maxWorkers, cpuCount, n) >= 2 workers, the chunks of ceil(n / w)
\* files hold every file exactly once (the chunks, one after the other, are
\* the file list), no chunk is empty and at most w workers are spawned; and
\* when the call has ended, by returning or by throwing, terminate() was
\* called on every worker it spawned.
C32_ChunksCoverAndWorkersTerminated ==
    LET n == Len(part.imageFiles)
        w == Min(Min(part.maxWorkers, part.cpuCount), n)
    IN  (n >= 2 /\ w >= 2 /\ jobState[1] # "PENDING") =>
           /\ Concat([i \in ChunkWorkerIds |-> workers[i].files]) = part.imageFiles
           /\ \A i \in ChunkWorkerIds : Len(workers[i].files) \in 1..Ceil(n, w)
           /\ Len(workers) \in 1..w
           /\ ChunkCallEnded => \A i \in ChunkWorkerIds : workers[i].terminated

\* three files cut for two workers into chunks of two and one; the first
\* worker failed, the call threw while the second had not reported, and both
\* were terminated
C32_Witness ==
    /\ Len(part.imageFiles) = 3
    /\ Min(part.maxWorkers, part.cpuCount) = 2
    /\ jobState[1] = "FAILED"
    /\ Len(workers) = 2
    /\ Len(workers[1].files) = 2
    /\ Len(workers[2].files) = 1
    /\ workers[1].promise = "rejected"
    /\ workers[2].promise = "pending"
    /\ \A i \in ChunkWorkerIds : workers[i].terminated

====
